---------------------------- MODULE Spec2Model ----------------------------
(***************************************************************************)
(* Model of the IMDb video-game scraper (src/src/scraping.py, main.py).    *)
(*                                                                         *)
(* The orchestrator run_scraping scrapes the search page, cuts the title   *)
(* URLs and rankings into batches, submits every batch to a thread pool    *)
(* of max_threads workers, waits for the batch, sleeps between batches,    *)
(* and finally builds and saves the table.  One Job is one call of         *)
(* scrape_title: the primary title-page fetch, up to three secondary       *)
(* threads, the joins, the row and the append under the lock.              *)
(*                                                                         *)
(* Three specifications share the state and the orchestrator actions:      *)
(*   Spec     thread-level Jobs (every step of scrape_title is an action)  *)
(*            on search pages of at most JobTitles titles;                 *)
(*   SpecRun  whole runs over several batches (up to MaxTitles titles),    *)
(*            with the body of scrape_title as one action;                 *)
(*   SpecMain the program started from the command line: main with         *)
(*            process_arguments, then a whole run of one batch.            *)
(***************************************************************************)
EXTENDS Integers, Sequences, FiniteSets, TLC

\* ------------------------------------------------------------------ bounds
JobTitles == 2      \* title elements on the search page, thread-level runs
MaxTitles == 6      \* title elements on the search page, whole runs
MaxRows == 1        \* cap on the rows appended in a whole run
ArgLen == 2         \* characters of the count argument on the command line

\* ------------------------------------------------------- program constants
\* a pool with one worker too many
max_threads_Six == 5 + 1
max_threads == 5    \* self.max_threads
MoreStep == 50      \* titles loaded by one 'load more' click: range(n // 50)

None == "None"      \* Python's None (a string, so that it compares with values)

Min(a, b) == IF a <= b THEN a ELSE b

\* ------------------------------------------------------------------ inputs
\* How a page fetch can go.  "driver_error": create_firefox_driver raises
\* (it is called before the try).  "content_error": check_page_content raises
\* its plain Exception.  "parse_error": the search page's count text does not
\* match the regular expression (AttributeError on .group).
TitleEvents  == {"ok", "timeout", "webdriver", "driver_error"}
SecondEvents == {"ok", "timeout", "webdriver", "driver_error", "content_error"}
SearchEvents == {"ok", "timeout", "webdriver", "driver_error", "parse_error"}

Links == {"ratings", "parents", "images"}
\* What a loaded title page carries: the title text and the secondary links.
\* A bare page has neither.
Pages == {[title |-> FALSE, links |-> {}]} \cup
         {[title |-> TRUE, links |-> L] : L \in SUBSET Links}
FullPage == [title |-> TRUE, links |-> Links]

VARIABLES
    args,           \* sys.argv (empty when the scraper is built directly)
    n,              \* self.n: requested count, 0 for None
    dwl_type,       \* self.dwl_type
    dwl_imgs,       \* self.dwl_imgs
    page_titles,    \* title elements the search page serves
    page_rankings,  \* ranking (h3) elements the search page serves
    run_pc,         \* where run_scraping is
    sn,             \* scrap_adv_search_page's local n
    loaded,         \* successful 'load more' clicks in the search driver's page
    clicks_left,    \* iterations left of the 'load more' loop
    titles_urls,    \* scraped_adv_data["titles_url"]
    rankings,       \* scraped_adv_data["rankings"]
    batch,          \* index of the batch being processed (1-based)
    job,            \* the Jobs submitted so far, in submission order
    data,           \* self.data
    lock,           \* self.lock: 0 free, else the index of the Job holding it
    slept,          \* batches after which run_scraping slept
    df,             \* the table built from self.data (None before)
    file            \* the dataset file written (none before)

vars == <<args, n, dwl_type, dwl_imgs, page_titles, page_rankings, run_pc, sn,
          loaded, clicks_left, titles_urls, rankings, batch, job, data, lock, slept,
          df, file>>

config == <<args, n, dwl_type, dwl_imgs, page_titles, page_rankings>>
search == <<sn, loaded, clicks_left, titles_urls, rankings>>
results == <<data, lock, df, file>>


\* --------------------------------------------------- the fetch operations
\* Every operation returns [raised, ...]: raised = the call ends with an
\* exception leaving the function; the other fields are the Series it returns.
\* A value that may be None is a sequence of length at most one.

NoTitleData == [title |-> None, details |-> None, parent_c_url |-> None,
                ratings_url |-> None, images_url |-> None]

\* scrap_titles_page whose handlers keep the fields of the page instead of
\* setting them to None
ScrapTitlesPage_Stale(ev, page) ==
    IF ev = "driver_error" THEN [raised |-> TRUE, d |-> NoTitleData]
    ELSE [raised |-> FALSE,
          d |-> [title |-> "title", details |-> "lists", parent_c_url |-> "url",
                 ratings_url |-> "url", images_url |-> "url"]]

\* scrap_titles_page: the driver is created before the try; TimeoutException
\* and WebDriverException set every field to None; a loaded page always gives
\* its list fields (find_elements returns [], never raises NoSuchElement).
ScrapTitlesPage(ev, page) ==
    IF ev = "driver_error" THEN [raised |-> TRUE, d |-> NoTitleData]
    ELSE IF ev \in {"timeout", "webdriver"} THEN [raised |-> FALSE, d |-> NoTitleData]
    ELSE [raised |-> FALSE,
          d |-> [title |-> IF page.title THEN "title" ELSE None,
                 details |-> "lists",
                 parent_c_url |-> IF "parents" \in page.links THEN "url" ELSE None,
                 ratings_url |-> IF "ratings" \in page.links THEN "url" ELSE None,
                 images_url |-> IF "images" \in page.links THEN "url" ELSE None]]

\* scraped_title_data.isna().all()
IsNaAll(d) ==
    /\ d.title = None
    /\ d.details = None
    /\ d.parent_c_url = None
    /\ d.ratings_url = None
    /\ d.images_url = None

\* except TimeoutException / except WebDriverException around driver.get and
\* check_page_content: what the two handlers of a secondary scraper catch.
Caught(ev) == ev \in {"timeout", "webdriver"}

\* scrap_ratings_page
ScrapRatingsPage(ev) ==
    IF ev = "ok" THEN [raised |-> FALSE, rating |-> "rating", user_ratings |-> "votes"]
    ELSE IF Caught(ev) THEN [raised |-> FALSE, rating |-> None, user_ratings |-> None]
    ELSE [raised |-> TRUE, rating |-> None, user_ratings |-> None]

\* scrap_parents_control_page
ScrapParentsControlPage(ev) ==
    IF ev = "ok" THEN [raised |-> FALSE, parental_guide |-> "guide"]
    ELSE IF Caught(ev) THEN [raised |-> FALSE, parental_guide |-> None]
    ELSE [raised |-> TRUE, parental_guide |-> None]

\* scrap_images_page
ScrapImagesPage(ev) ==
    IF ev = "ok" THEN [raised |-> FALSE, poster_url |-> "url"]
    ELSE IF Caught(ev) THEN [raised |-> FALSE, poster_url |-> None]
    ELSE [raised |-> TRUE, poster_url |-> None]

\* download_image: the whole body is inside try / except Exception.
DownloadImage(ev) == [raised |-> FALSE, written |-> ev = "ok"]

\* scrape_images: the images page, then the download when a poster was found.
ScrapeImages(ev, dl) ==
    LET p == ScrapImagesPage(ev) IN
    IF p.raised THEN [raised |-> TRUE]
    ELSE IF p.poster_url # None THEN [raised |-> DownloadImage(dl).raised]
    ELSE [raised |-> FALSE]

\* RatingThread.run / ParentControlThread.run / ImageThread.run: the thread
\* object after run ended, by a return or by an exception (which ends the
\* thread and nothing else): scraped_data stays None when the scraper raised.
\* fetches counts the page requests the thread made.
NoThread == [st |-> "none", scraped_data |-> << >>, fetches |-> 0]
Started  == [st |-> "running", scraped_data |-> << >>, fetches |-> 0]

\* RatingThread.run that asks for the page a second time when the first
\* request gave nothing
RatingThreadRun_Retry(ev) ==
    LET r == ScrapRatingsPage(ev) IN
    IF r.raised THEN [st |-> "ended", scraped_data |-> << >>, fetches |-> 1]
    ELSE [st |-> "ended", fetches |-> IF r.rating = None THEN 2 ELSE 1,
          scraped_data |-> <<[rating |-> r.rating, user_ratings |-> r.user_ratings]>>]

RatingThreadRun(ev) ==
    LET r == ScrapRatingsPage(ev) IN
    IF r.raised THEN [st |-> "ended", scraped_data |-> << >>, fetches |-> 1]
    ELSE [st |-> "ended", fetches |-> 1,
          scraped_data |-> <<[rating |-> r.rating, user_ratings |-> r.user_ratings]>>]

ParentControlThreadRun(ev) ==
    LET r == ScrapParentsControlPage(ev) IN
    IF r.raised THEN [st |-> "ended", scraped_data |-> << >>, fetches |-> 1]
    ELSE [st |-> "ended", fetches |-> 1,
          scraped_data |-> <<[parental_guide |-> r.parental_guide]>>]

\* ImageThread keeps nothing of scrape_images: however it ends, the thread
\* object is the same.
ImageThreadRun(ev, dl) ==
    LET r == ScrapeImages(ev, dl) IN
    [st |-> "ended", scraped_data |-> << >>, fetches |-> 1]

\* scrape_title, lines 571-584: which threads are created and started.
SpawnThreads(d, imgs) ==
    [ratings |-> IF d.ratings_url # None THEN Started ELSE NoThread,
     parents |-> IF d.parent_c_url # None THEN Started ELSE NoThread,
     images  |-> IF imgs /\ d.images_url # None THEN Started ELSE NoThread]

NoThreads == [ratings |-> NoThread, parents |-> NoThread, images |-> NoThread]

\* scrape_title, lines 587-593: the data taken from a joined thread; None
\* when the thread was never created.
Joined(t) == IF t.st = "none" THEN << >> ELSE t.scraped_data

\* scrape_title, lines 598-609: the row dictionary.  Subscripting None
\* (scraped_parents_data or scraped_ratings_data) raises TypeError.
BuildRow(title_url, ranking, d, sp, sr) ==
    IF sp = << >> \/ sr = << >> THEN [raised |-> TRUE, row |-> << >>]
    ELSE [raised |-> FALSE,
          row |-> <<[title |-> d.title, ranking |-> ranking, details |-> d.details,
                     parental_guide |-> sp[1].parental_guide,
                     rating |-> sr[1].rating,
                     user_ratings |-> sr[1].user_ratings,
                     imdb_url |-> title_url]>>]


\* ------------------------------------------------------------- the search
\* The requested counts and the totals the search page announces ("of N").
NValues == {0, 1, 2}
TitlesLens == {1, 2 * MoreStep}
DwlTypes == {None, "json", "csv", "xml"}

\* lines 149-150: if not n or n > titles_len: n = titles_len
EffectiveN(req, titles_len) ==
    IF req = 0 \/ req > titles_len THEN titles_len ELSE req

\* line 152: range(n // 50)
ClickCount(m) == m \div MoreStep

\* a finally block that leaves the lists as they were scraped
Truncate_Nothing(lst, m) == lst

\* lines 187-188: lst[:m]
Truncate(lst, m) == SubSeq(lst, 1, Min(Len(lst), m))

\* The elements found on the page: the first page shows one step of titles,
\* every successful click one step more.
Found(served, clicks) ==
    [i \in 1..Min(served, MoreStep * (1 + clicks)) |-> i]

\* scrap_adv_search_page up to the click loop: the driver is created before
\* the try; the handlers catch TimeoutException and WebDriverException only.
SearchOpen ==
    /\ run_pc = "search"
    /\ \E ev \in SearchEvents, titles_len \in TitlesLens :
        IF ev \in {"driver_error", "parse_error"}
        THEN /\ run_pc' = "raised"
             /\ UNCHANGED search
        ELSE IF ev \in {"timeout", "webdriver"}
        THEN /\ run_pc' = "searched"
             /\ titles_urls' = << >>
             /\ rankings' = << >>
             /\ UNCHANGED <<sn, loaded, clicks_left>>
        ELSE /\ run_pc' = "clicks"
             /\ sn' = EffectiveN(n, titles_len)
             /\ clicks_left' = ClickCount(EffectiveN(n, titles_len))
             /\ UNCHANGED <<loaded, titles_urls, rankings>>
    /\ UNCHANGED <<config, batch, job, slept, results>>

\* lines 152-157: one iteration of the loop; a WebDriverException of the
\* click is caught and the loop continues with the next iteration.
ClickSeeMore ==
    /\ run_pc = "clicks"
    /\ clicks_left > 0
    /\ \E clicked \in BOOLEAN :
        loaded' = IF clicked THEN loaded + 1 ELSE loaded
    /\ clicks_left' = clicks_left - 1
    /\ UNCHANGED <<config, run_pc, sn, titles_urls, rankings, batch, job, slept, results>>

\* lines 159-199: collect the hrefs and the rankings, truncate, quit.
SearchCollect ==
    /\ run_pc = "clicks"
    /\ clicks_left = 0
    /\ titles_urls' = Truncate(Found(page_titles, loaded), sn)
    /\ rankings' = Truncate(Found(page_rankings, loaded), sn)
    /\ sn' = 0
    /\ loaded' = 0
    /\ run_pc' = "searched"
    /\ UNCHANGED <<config, clicks_left, batch, job, slept, results>>

\* ------------------------------------------------------------ the batches
\* line 631
BatchSize == Min(Len(titles_urls), max_threads)

\* lines 632-633: the number of slices lst[i:i + batch_size]
NumBatches(lst) ==
    IF Len(lst) = 0 THEN 0 ELSE (Len(lst) + BatchSize - 1) \div BatchSize

\* lst[i:i + batch_size] of batch b, as the indices into lst
BatchIndices(lst, b) ==
    {i \in 1..Len(lst) : (b - 1) * BatchSize < i /\ i <= b * BatchSize}

\* line 637: zip(title_batches, rankings_batches)
Iterations == Min(NumBatches(titles_urls), NumBatches(rankings))

\* line 640-641: zip(title_batch, ranking_batch), as indices
BatchJobs(b) == BatchIndices(titles_urls, b) \cap BatchIndices(rankings, b)

Running(j) == j.pc \in {"primary", "join", "lock_wait", "in_lock"}
Ended(j) == j.pc \in {"returned", "raised", "appended"}

\* a submit that takes the ranking at the position within the batch
NewJob_BatchIndex(i, b) ==
    [title_url |-> titles_urls[i], ranking |-> rankings[i - (b - 1) * BatchSize],
     batch |-> b, pc |-> "queued", exc |-> None, primary |-> None, fetches |-> 0,
     d |-> << >>, thr |-> NoThreads, row |-> << >>]

NewJob(i, b) ==
    [title_url |-> titles_urls[i], ranking |-> rankings[i], batch |-> b,
     pc |-> "queued", exc |-> None, primary |-> None, fetches |-> 0,
     d |-> << >>, thr |-> NoThreads, row |-> << >>]

\* line 623: if scraped_adv_data["titles_url"]
Dispatch ==
    /\ run_pc = "searched"
    /\ IF Len(titles_urls) > 0 /\ Iterations > 0
       THEN batch' = 1 /\ run_pc' = "submit"
       ELSE batch' = batch /\ run_pc' = "build"
    /\ UNCHANGED <<config, search, job, slept, results>>

\* lines 638-641: the futures of one batch
Submit ==
    /\ run_pc = "submit"
    /\ job' = job \o [k \in 1..Cardinality(BatchJobs(batch)) |->
                        NewJob((batch - 1) * BatchSize + k, batch)]
    /\ run_pc' = "wait"
    /\ UNCHANGED <<config, search, batch, slept, results>>

\* line 647: title_batch is not title_batches[-1]
NotLastBatch(b) == b # NumBatches(titles_urls)

AfterBatch(b) == IF b < Iterations THEN "submit" ELSE "build"

\* a wait that returns with the first future done (FIRST_COMPLETED)
FuturesDone_Any(b) == \E i \in 1..Len(job) : job[i].batch = b /\ Ended(job[i])

\* line 643: concurrent.futures.wait(futures) returns
FuturesDone(b) == \A i \in 1..Len(job) : job[i].batch = b => Ended(job[i])

\* lines 643-648: wait for the futures of the batch
WaitBatch ==
    /\ run_pc = "wait"
    /\ FuturesDone(batch)
    /\ IF NotLastBatch(batch)
       THEN run_pc' = "sleep" /\ batch' = batch
       ELSE /\ run_pc' = AfterBatch(batch)
            /\ batch' = IF batch < Iterations THEN batch + 1 ELSE batch
    /\ UNCHANGED <<config, search, job, slept, results>>

\* line 649: time.sleep(0.5 * response_delay)
Sleep ==
    /\ run_pc = "sleep"
    /\ slept' = slept \cup {batch}
    /\ run_pc' = AfterBatch(batch)
    /\ batch' = IF batch < Iterations THEN batch + 1 ELSE batch
    /\ UNCHANGED <<config, search, job, results>>

\* line 652: df = pd.DataFrame(self.data), after the executor has shut down
BuildTable ==
    /\ run_pc = "build"
    /\ \A i \in 1..Len(job) : Ended(job[i])
    /\ df' = <<data>>
    /\ run_pc' = "save"
    /\ UNCHANGED <<config, search, batch, job, slept, data, lock, file>>

\* pd.DataFrame(list of dicts): the columns are the keys of the rows, and a
\* table built from an empty list has no column.
Columns(table) == IF Len(table) = 0 THEN {} ELSE DOMAIN table[1]

\* df.to_json(filepath, orient='records'): an array of one object per row
ToJson(table) == [format |-> "json", header |-> {}, records |-> table]

\* df.to_csv(filepath, index=False): the header line of the column names,
\* then one line per row
ToCsv(table) == [format |-> "csv", header |-> Columns(table), records |-> table]

\* save_dataset: the file it writes, none for any other type
FileWritten(type, table) ==
    IF type = "json" \/ type = None THEN <<ToJson(table)>>
    ELSE IF type = "csv" THEN <<ToCsv(table)>>
    ELSE << >>

SaveDataset ==
    /\ run_pc = "save"
    /\ file' = FileWritten(dwl_type, df[1])
    /\ run_pc' = "done"
    /\ UNCHANGED <<config, search, batch, job, slept, data, lock, df>>


\* ---------------------------------------------------------------- the Jobs
\* A Job is the record of one call scrape_title(title_url, ranking):
\*   pc       queued, primary (in scrap_titles_page), join (threads started),
\*            lock_wait, in_lock, and the ends returned (line 562), raised,
\*            appended;
\*   exc      the exception the call ended with (the future's exception);
\*   primary  how the title-page fetch went: failed, empty or loaded;
\*   fetches  how often the title page was requested;
\*   d, thr, row   the locals scraped_title_data, the three threads, row.

\* ThreadPoolExecutor(max_workers=self.max_threads): a queued call starts
\* when a worker is free; the work queue is first in, first out.
WorkerFree == Cardinality({i \in 1..Len(job) : Running(job[i])}) < max_threads

\* A worker takes the call scrape_title(title_url, ranking) and enters
\* scrap_titles_page (line 560).
StartJob(i) ==
    /\ job[i].pc = "queued"
    /\ \A k \in 1..(i - 1) : job[k].pc # "queued"
    /\ WorkerFree
    /\ job' = [job EXCEPT ![i].pc = "primary", ![i].fetches = @ + 1]
    /\ UNCHANGED <<config, run_pc, search, batch, slept, results>>

\* The call ends: its locals are gone.
EndJob(j, how, e) ==
    [j EXCEPT !.pc = how, !.exc = e, !.d = << >>, !.thr = NoThreads, !.row = << >>]

\* The Job after scrap_titles_page returned r (lines 560-584).
AfterTitlePage(j, r, imgs) ==
    IF r.raised THEN EndJob(j, "raised", "WebDriverException")
    ELSE IF IsNaAll(r.d) THEN EndJob(j, "returned", None)
    ELSE LET t == SpawnThreads(r.d, imgs) IN
         [j EXCEPT !.pc = "join", !.d = <<r.d>>, !.thr = t]

\* The Job after every thread it started was joined (lines 587-609).
AfterJoin(j) ==
    LET r == BuildRow(j.title_url, j.ranking, j.d[1],
                      Joined(j.thr.parents), Joined(j.thr.ratings)) IN
    IF r.raised THEN EndJob(j, "raised", "TypeError")
    ELSE [j EXCEPT !.pc = "lock_wait", !.row = r.row, !.d = << >>, !.thr = NoThreads]

\* Every way a title-page fetch can end, and every way the three secondary
\* threads can end.
\* How the fetch went: "failed" (timeout, WebDriver error, no driver),
\* "empty" (a page without any usable field) or "loaded".
Outcome(ev, page) ==
    IF ev # "ok" THEN "failed"
    ELSE IF ~page.title /\ page.links = {} THEN "empty"
    ELSE "loaded"
TitleFetches ==
    {[how |-> Outcome(ev, page), r |-> ScrapTitlesPage(ev, page)] :
        ev \in TitleEvents, page \in Pages}
RatingRuns == {RatingThreadRun(ev) : ev \in SecondEvents}
ParentControlRuns == {ParentControlThreadRun(ev) : ev \in SecondEvents}
ImageRuns == {ImageThreadRun(ev, dl) : ev \in SecondEvents, dl \in {"ok", "error"}}

\* scrap_titles_page returns; the secondary threads are started.
TitleReturn(i) ==
    /\ job[i].pc = "primary"
    /\ \E f \in TitleFetches :
        job' = [job EXCEPT ![i] = AfterTitlePage([@ EXCEPT !.primary = f.how], f.r, dwl_imgs)]
    /\ UNCHANGED <<config, run_pc, search, batch, slept, results>>

\* A secondary thread runs to its end.
RatingThreadEnd(i) ==
    /\ job[i].thr.ratings.st = "running"
    /\ \E t \in RatingRuns :
        job' = [job EXCEPT ![i].thr.ratings = t]
    /\ UNCHANGED <<config, run_pc, search, batch, slept, results>>

ParentControlThreadEnd(i) ==
    /\ job[i].thr.parents.st = "running"
    /\ \E t \in ParentControlRuns :
        job' = [job EXCEPT ![i].thr.parents = t]
    /\ UNCHANGED <<config, run_pc, search, batch, slept, results>>

ImageThreadEnd(i) ==
    /\ job[i].thr.images.st = "running"
    /\ \E t \in ImageRuns :
        job' = [job EXCEPT ![i].thr.images = t]
    /\ UNCHANGED <<config, run_pc, search, batch, slept, results>>

\* a Job that joins its ratings thread only
AllJoined_RatingsOnly(j) == j.thr.ratings.st # "running"

\* thread.join() returns for every thread that was started
AllJoined(j) == \A t \in Links : j.thr[t].st # "running"

\* lines 587-609: the joins, then the row
JoinAll(i) ==
    /\ job[i].pc = "join"
    /\ AllJoined(job[i])
    /\ job' = [job EXCEPT ![i] = AfterJoin(@)]
    /\ UNCHANGED <<config, run_pc, search, batch, slept, results>>

\* an append section without the lock
LockFree_Always == TRUE

\* line 611: with self.lock
LockFree == lock = 0

Acquire(i) ==
    /\ job[i].pc = "lock_wait"
    /\ LockFree
    /\ lock' = i
    /\ job' = [job EXCEPT ![i].pc = "in_lock"]
    /\ UNCHANGED <<config, run_pc, search, batch, slept, data, df, file>>

\* an append section that appends the row twice
AppendRow_Twice(i) ==
    /\ job[i].pc = "in_lock"
    /\ data' = Append(Append(data, job[i].row[1]), job[i].row[1])
    /\ lock' = 0
    /\ job' = [job EXCEPT ![i] = EndJob(@, "appended", None)]
    /\ UNCHANGED <<config, run_pc, search, batch, slept, df, file>>

\* lines 612-613: the append, then the lock is released and the call ends
AppendRow(i) ==
    /\ job[i].pc = "in_lock"
    /\ data' = Append(data, job[i].row[1])
    /\ lock' = 0
    /\ job' = [job EXCEPT ![i] = EndJob(@, "appended", None)]
    /\ UNCHANGED <<config, run_pc, search, batch, slept, df, file>>

\* scrape_title as one step, from the return of the title page to the row
\* ready to be appended or to the end of the call: the threads run to their
\* ends and are joined.
WholeJob(j, r, imgs, tr, tp, ti) ==
    LET a == AfterTitlePage(j, r, imgs) IN
    IF a.pc # "join" THEN a
    ELSE AfterJoin([a EXCEPT
           !.thr.ratings = IF @.st = "running" THEN tr ELSE @,
           !.thr.parents = IF @.st = "running" THEN tp ELSE @,
           !.thr.images = IF @.st = "running" THEN ti ELSE @])

\* Every combination of fetch outcomes of one call, and one representative
\* of each way the call can end (combinations that differ only in the kind
\* of exception caught end the call the same way).  The title pages of a
\* whole run are the pages that carry a title, with any of the three links.
TitledFetches == {f \in TitleFetches : f.how = "failed" \/ f.r.d.title # None}
Combinations ==
    {[f |-> f, tr |-> tr, tp |-> tp, ti |-> ti] :
        f \in TitledFetches, tr \in RatingRuns, tp \in ParentControlRuns, ti \in ImageRuns}
Probe == [title_url |-> 0, ranking |-> 0, batch |-> 0, pc |-> "primary", exc |-> None,
          primary |-> None, fetches |-> 1, d |-> << >>, thr |-> NoThreads, row |-> << >>]
Ending(c, imgs) ==
    WholeJob([Probe EXCEPT !.primary = c.f.how], c.f.r, imgs, c.tr, c.tp, c.ti)
WaysToEnd ==
    [imgs \in BOOLEAN |->
        {c \in Combinations :
            c = CHOOSE e \in Combinations : Ending(e, imgs) = Ending(c, imgs)}]

\* The rest of the call as one step; the append happens under the lock.
ScrapeTitle(i) ==
    /\ job[i].pc = "primary"
    /\ LockFree
    /\ \E c \in WaysToEnd[dwl_imgs] :
        LET j == WholeJob([job[i] EXCEPT !.primary = c.f.how], c.f.r, dwl_imgs,
                          c.tr, c.tp, c.ti) IN
        IF j.pc = "lock_wait"
        THEN /\ Len(data) < MaxRows
             /\ data' = Append(data, j.row[1])
             /\ job' = [job EXCEPT ![i] = EndJob(j, "appended", None)]
        ELSE /\ data' = data
             /\ job' = [job EXCEPT ![i] = j]
    /\ UNCHANGED <<config, run_pc, search, batch, slept, lock, df, file>>

\* ------------------------------------------------------- the command line
\* sys.argv is a sequence: the script, then the count argument as its
\* characters, then the file type and the image flag as strings.
Digits == {"0", "1"}
ArgChars == Digits \cup {"-", "x"}
CountArgs == UNION {[1..k -> ArgChars] : k \in 0..ArgLen}
TypeArgs == {"json", "csv", "xml"}
ImgArgs == {"", "False"}
Argvs ==
    {<<"main.py">>}
    \cup {<<"main.py", c>> : c \in CountArgs}
    \cup {<<"main.py", c, t>> : c \in CountArgs, t \in TypeArgs}
    \cup {<<"main.py", c, t, i>> : c \in CountArgs, t \in TypeArgs, i \in ImgArgs}
    \cup {<<"main.py", c, "json", "", "more">> : c \in CountArgs}

\* int(s) of a string: an optional minus sign and decimal digits, ValueError
\* (ok = FALSE) for anything else
IsDigits(s) == Len(s) > 0 /\ \A i \in 1..Len(s) : s[i] \in Digits
DigitValue(c) == IF c = "1" THEN 1 ELSE 0
RECURSIVE Decimal(_)
Decimal(s) ==
    IF Len(s) = 0 THEN 0
    ELSE 10 * Decimal(SubSeq(s, 1, Len(s) - 1)) + DigitValue(s[Len(s)])
int(s) ==
    IF IsDigits(s) THEN [ok |-> TRUE, value |-> Decimal(s)]
    ELSE IF Len(s) > 1 /\ s[1] = "-" /\ IsDigits(Tail(s))
    THEN [ok |-> TRUE, value |-> 0 - Decimal(Tail(s))]
    ELSE [ok |-> FALSE, value |-> 0]

\* bool(s) of a string: every string but the empty one is True
bool(s) == s # ""

\* process_arguments: exit = sys.exit was called (the SystemExit raised for a
\* negative count is caught by the bare except, which calls sys.exit again);
\* otherwise the tuple returned, n being none or <<the count>>.
\* Python's args[k] is a[k + 1].
process_arguments(a) ==
    LET exited == [exit |-> TRUE, n |-> << >>, dwl_type |-> None, dwl_imgs |-> FALSE]
        count == int(a[2])
        accepted == count.ok /\ ~(count.value < 0)
    IN  IF Len(a) > 4 THEN exited
        ELSE IF Len(a) = 2 THEN
            IF accepted
            THEN [exit |-> FALSE, n |-> <<count.value>>, dwl_type |-> None,
                  dwl_imgs |-> FALSE]
            ELSE exited
        ELSE IF Len(a) = 3 THEN
            IF accepted
            THEN [exit |-> FALSE, n |-> <<count.value>>, dwl_type |-> a[3],
                  dwl_imgs |-> FALSE]
            ELSE exited
        ELSE IF Len(a) = 4 THEN
            IF accepted
            THEN [exit |-> FALSE, n |-> <<count.value>>, dwl_type |-> a[3],
                  dwl_imgs |-> bool(a[4])]
            ELSE exited
        ELSE [exit |-> FALSE, n |-> << >>, dwl_type |-> None, dwl_imgs |-> FALSE]

\* main: process_arguments, n = None if n == 0 else n (both are 0 here), the
\* scraper is built and run_scraping is called.
Main ==
    /\ run_pc = "args"
    /\ LET r == process_arguments(args) IN
        IF r.exit
        THEN /\ run_pc' = "exit"
             /\ UNCHANGED <<n, dwl_type, dwl_imgs>>
        ELSE /\ run_pc' = "search"
             /\ n' = IF r.n = << >> THEN 0 ELSE r.n[1]
             /\ dwl_type' = r.dwl_type
             /\ dwl_imgs' = r.dwl_imgs
    /\ UNCHANGED <<args, page_titles, page_rankings, search, batch, job, slept, results>>

\* --------------------------------------------------------- specifications
\* The state after IMDbVideoGamesScraper(n, dwl_type, dwl_imgs) was built,
\* with the file types and the search page drawn from the given sets.
InitWith(types, imgs, bound) ==
    /\ args = << >>
    /\ n \in NValues
    /\ dwl_type \in types
    /\ dwl_imgs \in imgs
    /\ page_titles \in {0, 1, bound}
    /\ page_rankings \in {k \in 0..bound : k - page_titles \in {-1, 0, 1}}
    /\ run_pc = "search"
    /\ sn = 0
    /\ loaded = 0
    /\ clicks_left = 0
    /\ titles_urls = << >>
    /\ rankings = << >>
    /\ batch = 0
    /\ job = << >>
    /\ data = << >>
    /\ lock = 0
    /\ slept = {}
    /\ df = << >>
    /\ file = << >>

Init == InitWith({None}, BOOLEAN, JobTitles)

Orchestrate ==
    \/ SearchOpen
    \/ ClickSeeMore
    \/ SearchCollect
    \/ Dispatch
    \/ Submit
    \/ WaitBatch
    \/ BuildTable
    \/ SaveDataset

Next ==
    \/ Orchestrate
    \/ \E i \in 1..Len(job) :
        \/ StartJob(i)
        \/ TitleReturn(i)
        \/ RatingThreadEnd(i)
        \/ ParentControlThreadEnd(i)
        \/ ImageThreadEnd(i)
        \/ JoinAll(i)
        \/ Acquire(i)
        \/ AppendRow(i)

Spec == Init /\ [][Next]_vars

InitWhole == InitWith({None}, {FALSE}, MaxTitles)

NextRun ==
    \/ Orchestrate
    \/ Sleep
    \/ \E i \in 1..Len(job) :
        \/ StartJob(i)
        \/ ScrapeTitle(i)

SpecRun == InitWhole /\ [][NextRun]_vars

\* The program started from the command line: main, then the run.
InitMain ==
    /\ args \in Argvs
    /\ n = 0
    /\ dwl_type = None
    /\ dwl_imgs = FALSE
    /\ page_titles \in {0, 1, JobTitles}
    /\ page_rankings \in {k \in 0..JobTitles : k - page_titles \in {-1, 0, 1}}
    /\ run_pc = "args"
    /\ sn = 0
    /\ loaded = 0
    /\ clicks_left = 0
    /\ titles_urls = << >>
    /\ rankings = << >>
    /\ batch = 0
    /\ job = << >>
    /\ data = << >>
    /\ lock = 0
    /\ slept = {}
    /\ df = << >>
    /\ file = << >>

NextMain ==
    \/ Main
    \/ Orchestrate
    \/ \E i \in 1..Len(job) :
        \/ StartJob(i)
        \/ ScrapeTitle(i)

SpecMain == InitMain /\ [][NextMain]_vars

\* ----------------------------------------------------------------- claims
Jobs == 1..Len(job)
RowsOf(i) == {k \in 1..Len(data) : data[k].imdb_url = job[i].title_url}
RunningJobs == {i \in Jobs : Running(job[i])}

\* A secondary thread that was started and whose fetch failed: run raised
\* (no data) or the scraper returned its fields as None.
RatingsFailed(j) ==
    /\ j.thr.ratings.st = "ended"
    /\ \/ j.thr.ratings.scraped_data = << >>
       \/ j.thr.ratings.scraped_data[1].rating = None
ParentsFailed(j) ==
    /\ j.thr.parents.st = "ended"
    /\ \/ j.thr.parents.scraped_data = << >>
       \/ j.thr.parents.scraped_data[1].parental_guide = None

\* The row the claim C1 expects of a Job that leaves its joins: the primary
\* fields kept, and None exactly in the sub-fields of the fetches that failed.
DegradedRow(j, row) ==
    /\ row.title = j.d[1].title
    /\ row.details = j.d[1].details
    /\ row.imdb_url = j.title_url
    /\ row.ranking = j.ranking
    /\ (row.rating = None) = RatingsFailed(j)
    /\ (row.user_ratings = None) = RatingsFailed(j)
    /\ (row.parental_guide = None) = ParentsFailed(j)

\* C1: a Job whose title page loaded and whose ratings or parental-guidance
\* fetch failed in any way still gets its row, with None in exactly the
\* sub-fields of the failed fetch: when such a Job leaves its joins it has
\* built that row and goes on to append it.  (Stated for the Jobs that
\* started both threads, so that only a failed fetch can cost the row.)
C1_SecondaryFailureKeepsRow ==
    [][\A i \in Jobs :
          (/\ job[i].pc = "join"
           /\ job'[i].pc # "join"
           /\ job[i].thr.ratings.st = "ended"
           /\ job[i].thr.parents.st = "ended"
           /\ RatingsFailed(job[i]) \/ ParentsFailed(job[i]))
          => (/\ job'[i].pc = "lock_wait"
              /\ DegradedRow(job[i], job'[i].row[1]))]_vars

\* C2: the result list holds at most one row per dispatched Job, and every
\* row belongs to a dispatched Job.
C2_AtMostOneRowPerJob ==
    /\ \A i \in Jobs : Cardinality(RowsOf(i)) <= 1
    /\ \A k \in 1..Len(data) : \E i \in Jobs : k \in RowsOf(i)
    /\ \A i \in Jobs : job[i].pc = "appended" <=> RowsOf(i) # {}

C2_Witness ==
    /\ Len(job) = 2
    /\ Len(data) = 2

\* C3: a Job whose title-page fetch failed (timeout, WebDriver error, no
\* driver) or gave a page without any usable field starts no secondary
\* thread and has no row in the result list.
C3_FailedPrimaryNoRow ==
    \A i \in Jobs :
        job[i].primary \in {"failed", "empty"} =>
            /\ job[i].thr = NoThreads
            /\ job[i].pc \in {"join", "returned", "raised"}
            /\ job[i].primary = "failed" => job[i].pc # "join"
            /\ RowsOf(i) = {}

C3_Witness ==
    \E i, k \in Jobs :
        /\ job[i].primary = "failed" /\ job[i].pc = "returned"
        /\ job[k].primary = "empty" /\ job[k].pc = "raised"
        /\ run_pc = "done"

\* C4: never more than five Jobs (the worker limit max_threads = 5) are
\* executing at the same time.
C4_WorkerLimit == Cardinality(RunningJobs) <= 5

C4_Witness ==
    /\ Cardinality(RunningJobs) = 5
    /\ Len(titles_urls) > 5

\* C5: a Job of a later batch is not started before every Job of the
\* earlier batches has ended, so Jobs of two batches never run together.
C5_BatchesSequential ==
    \A i, k \in Jobs :
        /\ (job[i].batch < job[k].batch /\ job[k].pc # "queued") => Ended(job[i])
        /\ (Running(job[i]) /\ Running(job[k])) => job[i].batch = job[k].batch

C5_Witness ==
    \E i, k \in Jobs :
        /\ job[i].batch = 1 /\ job[i].pc = "appended"
        /\ job[k].batch = 2 /\ Running(job[k])

\* C6: a secondary thread runs only in a Job whose title-page fetch has
\* returned with the page loaded, and the Job leaves its joins (to build and
\* append the row, or to end) only when none of its threads is running.
C6_ThreadsAfterPrimaryJoinedBeforeRow ==
    [][/\ \A i \in 1..Len(job') : \A t \in Links :
             job'[i].thr[t].st = "running" =>
                 job'[i].pc = "join" /\ job'[i].primary = "loaded"
       /\ \A i \in Jobs :
             (job[i].pc = "join" /\ job'[i].pc # "join") =>
                 \A t \in Links : job[i].thr[t].st # "running"]_vars

\* the three threads of one Job running at once, and a thread ended while
\* the others still run
C6_Witness ==
    \E i, k \in Jobs :
        /\ \A t \in Links : job[i].thr[t].st = "running"
        /\ job[k].thr.ratings.st = "ended"
        /\ job[k].thr.parents.st = "running"

\* C7: the lock is held by exactly the Job that is inside the append
\* section, so by at most one; the holder can always append and release; and
\* the only change ever made to the result list is the holder appending its
\* one row, which releases the lock.
MutexInv ==
    /\ Cardinality({i \in Jobs : job[i].pc = "in_lock"}) <= 1
    /\ lock \in {0} \cup Jobs
    /\ \A i \in Jobs : job[i].pc = "in_lock" <=> lock = i
    /\ \A i \in Jobs : job[i].pc = "in_lock" => Len(job[i].row) = 1

C7_LockGuardsAppend ==
    [][/\ MutexInv'
       /\ \/ data' = data
          \/ \E i \in Jobs :
                /\ lock = i
                /\ job[i].pc = "in_lock"
                /\ data' = Append(data, job[i].row[1])
                /\ lock' = 0]_vars

\* one Job inside the append section while another waits for the lock
C7_Witness ==
    \E i, k \in Jobs :
        /\ job[i].pc = "in_lock"
        /\ job[k].pc = "lock_wait"
        /\ Len(data) = 0

\* C8: no fetch operation lets an exception out: the search scrape and the
\* title-page scrape never end with an exception, and a secondary thread
\* that ended has the Series its scraper returned.
C8_FetchesNeverRaise ==
    /\ run_pc # "raised"
    /\ \A i \in Jobs :
        /\ job[i].exc # "WebDriverException"
        /\ job[i].thr.ratings.st = "ended" => job[i].thr.ratings.scraped_data # << >>
        /\ job[i].thr.parents.st = "ended" => job[i].thr.parents.scraped_data # << >>

\* What holds of the fetch counts at every moment: Job i is the call for
\* title URL i, its title page was requested once as soon as it started, and
\* a secondary page once by the thread started for it.
FetchCounts ==
    /\ Len(job) <= Min(Len(titles_urls), Len(rankings))
    /\ \A i \in Jobs :
        /\ job[i].title_url = titles_urls[i]
        /\ job[i].fetches = IF job[i].pc = "queued" THEN 0 ELSE 1
        /\ \A t \in Links :
              job[i].thr[t].fetches = IF job[i].thr[t].st = "ended" THEN 1 ELSE 0

\* C9 as stated: at the end of the run the primary page of each title URL
\* was fetched exactly once.
C9_EachTitleUrlFetchedOnce ==
    run_pc = "done" =>
        \A u \in 1..Len(titles_urls) :
            \E i \in Jobs : job[i].title_url = titles_urls[u] /\ job[i].fetches = 1

\* C9, amended: no fetch is repeated.  The title page of every dispatched
\* Job, which are the first min(len(titles), len(rankings)) title URLs, is
\* requested exactly once, the title URLs beyond them never; every secondary
\* page at most once; and every iteration of the 'load more' loop is used up
\* by its one click, failed or not.
C9_NoRetries ==
    [][/\ FetchCounts'
       /\ run_pc' = "done" => Len(job') = Min(Len(titles_urls'), Len(rankings'))
       /\ (run_pc = "clicks" /\ clicks_left > 0) => clicks_left' = clicks_left - 1
       /\ (run_pc = "clicks" /\ run_pc' = "clicks") => loaded' <= loaded + 1]_vars

\* the run is over, a title URL was left without a Job, and a Job whose
\* title-page fetch failed has requested it once
C9_Witness ==
    /\ run_pc = "done"
    /\ Len(titles_urls) = 2
    /\ Len(job) = 1
    /\ job[1].primary = "failed"
    /\ job[1].fetches = 1

\* C10: whatever fails, run_scraping does not end before it has built the
\* table and called save_dataset.
C10_RunReachesSave ==
    run_pc \in {"done", "raised"} => (run_pc = "done" /\ df # << >>)


\* What the claim C11 calls invalid startup arguments: more than four argv
\* entries, or a count argument that is not an integer or is negative.
IsInteger(c) ==
    \E sign \in {<< >>, <<"-">>} : \E k \in 1..Len(c) :
        /\ c = sign \o SubSeq(c, Len(sign) + 1, Len(c))
        /\ Len(c) = Len(sign) + k
        /\ \A i \in (Len(sign) + 1)..Len(c) : c[i] \in Digits
IsNegative(c) ==
    /\ IsInteger(c)
    /\ c[1] = "-"
    /\ \E i \in 2..Len(c) : c[i] # "0"
InvalidArguments ==
    \/ Len(args) > 4
    \/ Len(args) \in 2..4 /\ (~IsInteger(args[2]) \/ IsNegative(args[2]))

\* process_arguments exits exactly for invalid arguments, and otherwise
\* hands main the count, the type and the image flag of the command line.
ArgumentsDecideExit ==
    run_pc # "args" =>
        /\ run_pc = "exit" <=> InvalidArguments
        /\ (run_pc # "exit" /\ Len(args) >= 3) => dwl_type = args[3]
        /\ (run_pc # "exit" /\ Len(args) < 3) => dwl_type = None
        /\ (run_pc # "exit" /\ Len(args) = 4) => dwl_imgs = (args[4] # "")
        /\ (run_pc # "exit" /\ Len(args) < 4) => dwl_imgs = FALSE

\* C11: the process stops early only by process_arguments exiting, which it
\* does exactly for invalid arguments; once the arguments are accepted,
\* nothing (a fetch failure, a search page that cannot be parsed, an
\* unsupported file type) ends the process before run_scraping has finished.
C11_HardStopOnlyForInvalidArgs ==
    /\ ArgumentsDecideExit
    /\ run_pc # "raised"

\* C12: when a count n > 0 was requested, the URL and ranking lists handed
\* to run_scraping, the Jobs dispatched, the rows collected, the table and
\* the saved file never have more than n entries.
C12_RowsAtMostRequested ==
    n > 0 =>
        /\ Len(titles_urls) <= n
        /\ Len(rankings) <= n
        /\ Len(job) <= n
        /\ Len(data) <= n
        /\ df # << >> => Len(df[1]) <= n
        /\ file # << >> => Len(file[1].records) <= n

\* a run that asked for one title of a page that serves two, and saved a
\* table of one row
C12_Witness ==
    /\ n = 1
    /\ page_titles = 2
    /\ page_rankings = 2
    /\ run_pc = "done"
    /\ Len(file[1].records) = 1

\* The field set of a row (line 598-609).
RowFields == {"title", "ranking", "details", "parental_guide", "rating",
              "user_ratings", "imdb_url"}

\* A file that was written has the requested format, and only 'json', 'csv'
\* or no type at all get a file.
WrittenAsRequested ==
    file # << >> =>
        /\ run_pc = "done"
        /\ file[1].records = data
        /\ file[1].format = IF dwl_type = "csv" THEN "csv" ELSE "json"
        /\ dwl_type \in {"json", "csv", None}

\* C13: a run that went through save_dataset has written one dataset file:
\* the array of the row objects when the type is 'json' or was not given,
\* and CSV with the header row of the field set when the type is 'csv'; no
\* file of another format is ever written.
C13_FileMatchesRequestedType ==
    /\ WrittenAsRequested
    /\ run_pc = "done" =>
        /\ file # << >>
        /\ dwl_type = "csv" => file[1].header = RowFields

\* The number of batches a run processes (none without a title URL).
BatchesProcessed == IF Len(titles_urls) = 0 THEN 0 ELSE Iterations

\* The sleeps of a run:
\* the Jobs of a batch after the first are submitted only after the sleep
\* that follows the batch before, no sleep follows the last batch processed,
\* and when the batches are over every batch but the last was slept after.
SleepsBetweenBatches ==
    /\ \A i \in Jobs : job[i].batch > 1 => (job[i].batch - 1) \in slept
    /\ run_pc \notin {"search", "clicks"} => slept \subseteq 1..(BatchesProcessed - 1)
    /\ run_pc \in {"build", "save", "done"} => slept = 1..(BatchesProcessed - 1)

\* C14: the orchestrator sleeps after each batch that is not the last one
\* processed, before the next batch is submitted, and never after the last
\* batch processed, whatever the lengths of the two lists.
C14_SleepAfterNonFinalBatchOnly == SleepsBetweenBatches

\* The threads a Job has when it enters its joins: one per link found on the
\* title page, the image thread only when images are downloaded.
ThreadPerLink(j) ==
    /\ j.thr.ratings.st = "running" <=> j.d[1].ratings_url # None
    /\ j.thr.parents.st = "running" <=> j.d[1].parent_c_url # None
    /\ j.thr.images.st = "running" <=> (dwl_imgs /\ j.d[1].images_url # None)
    /\ \A t \in Links : j.thr[t].st \in {"none", "running"}

\* A Job at its joins whose title page gave a title, that lacks the ratings
\* or the parental-guidance thread and whose other threads all ended with
\* the Series of their scraper.
LacksSecondaryLink(j) ==
    /\ j.pc = "join"
    /\ j.d[1].title # None
    /\ j.thr.ratings.st = "none" \/ j.thr.parents.st = "none"
    /\ \A t \in {"ratings", "parents"} :
          j.thr[t].st = "ended" => j.thr[t].scraped_data # << >>

\* C15: a Job starts one thread per secondary link its title page has (the
\* image thread only when images are downloaded), and a Job that lacks the
\* ratings or the parental-guidance link still builds its row, with None in
\* the sub-fields of the missing page, and goes on to append it.
C15_MissingLinkKeepsRow ==
    [][\A i \in Jobs :
          /\ (job[i].pc = "primary" /\ job'[i].pc = "join") => ThreadPerLink(job'[i])
          /\ (LacksSecondaryLink(job[i]) /\ job'[i].pc # "join") =>
                /\ job'[i].pc = "lock_wait"
                /\ job'[i].row[1].title = job[i].d[1].title
                /\ job'[i].row[1].imdb_url = job[i].title_url
                /\ job[i].thr.ratings.st = "none" =>
                      job'[i].row[1].rating = None /\ job'[i].row[1].user_ratings = None
                /\ job[i].thr.parents.st = "none" =>
                      job'[i].row[1].parental_guide = None]_vars

\* Only the first half of C15: the threads started match the links.
ThreadsMatchLinks ==
    [][\A i \in Jobs :
          (job[i].pc = "primary" /\ job'[i].pc = "join") => ThreadPerLink(job'[i])]_vars

\* A step of the run as the claim C16 has it: once the table is built every
\* Job of every batch was dispatched and has ended, the table holds every
\* row appended, and from then on neither the list nor the table changes;
\* the file, once written, stays as it is; a search that gave no title URL
\* goes straight on to build the table; run_scraping returns only with the
\* table built.
TableStep ==
    /\ df' # << >> =>
         /\ \A i \in 1..Len(job') : Ended(job'[i])
         /\ Len(job') = Min(Len(titles_urls'), Len(rankings'))
         /\ df'[1] = data'
    /\ df # << >> => (df' = df /\ data' = data /\ job' = job)
    /\ file # << >> => file' = file
    /\ (run_pc = "searched" /\ titles_urls = << >>) => run_pc' = "build"
    /\ run_pc' = "done" => df' # << >>

TableAfterAllJobs == [][TableStep]_vars

\* The run is over: run_scraping returned or an exception ended it.
RunOver == run_pc \in {"done", "raised"}

\* C16: every run builds and saves the table exactly once, and only after
\* all its Jobs have finished, with every row that was ever appended: the
\* steps above, and no run is over without the table built and saved.
C16_TableBuiltAndSavedOnce ==
    [][/\ TableStep
       /\ RunOver' => run_pc' = "done"]_vars

\* C17: the Jobs dispatched are the pairs (T[i], R[i]) of the title list T
\* and the ranking list R, in order and each once, for the indices up to the
\* shorter list's length, all of them once the batches are over; and every
\* row carries the ranking found at the index of its title URL.
C17_PairingPreserved ==
    /\ Len(job) <= Min(Len(titles_urls), Len(rankings))
    /\ \A i \in Jobs :
          /\ job[i].title_url = titles_urls[i]
          /\ job[i].ranking = rankings[i]
          /\ job[i].batch = ((i - 1) \div BatchSize) + 1
    /\ run_pc \in {"build", "save", "done"} =>
          Len(job) = Min(Len(titles_urls), Len(rankings))
    /\ \A k \in 1..Len(data) :
          \E i \in Jobs :
              /\ data[k].imdb_url = titles_urls[i]
              /\ data[k].ranking = rankings[i]

\* a run of two batches that has the row of a Job of the second batch
C17_Witness ==
    /\ run_pc = "done"
    /\ Len(job) > max_threads
    /\ \E k \in 1..Len(data) : data[k].imdb_url = titles_urls[Len(job)]

=============================================================================
